---- MODULE Spec2Model ----
(***************************************************************************)
(* The asset-transfer chaincode (smartcontract.go) as a state machine over *)
(* the world state: a key-value store of JSON documents.  One action per   *)
(* transaction function of SmartContract.  Money amounts are float64 in    *)
(* the source; every amount of the model is an integer far below 2^53, on  *)
(* which float64 addition, subtraction and comparison are exact.           *)
(***************************************************************************)
EXTENDS Integers, Sequences, FiniteSets, TLC

VARIABLES world,   \* the world state: key -> stored JSON document
          prev,    \* the world state before the last transaction function ran
          last,    \* the last call: function, arguments, returned error, store writes
          nCalls   \* number of calls made so far

vars == <<world, prev, last, nCalls>>

----------------------------------------------------------------------------
(* Bounds of the model *)

MaxCalls == 3

(* Argument values the calls are made with *)
AssetArgs == {"asset6", "asset7", "user2"}
PartyArgs == {"user2", "user3", "asset7"}
OwnerArgs == {"user2", "asset7"}
Brands == {"fiat"}
Models == {"500L"}
Years == {2018}
Colors == {"white"}
Descriptions == {"scratch"}
AppraisedValues == {0, 3750}
Costs == {2000, 3750}
\* the IDs CreateAsset is called with: those above and one that sorts before "asset"
CreateArgs == AssetArgs \cup {"a1"}
\* the filters FindAssets is called with
FilterColors == {"", "black"}
FilterOwners == {"", "user3"}

----------------------------------------------------------------------------
(* Go values: slices, structs and their JSON encoding *)

\* a nil slice and an empty, non-nil slice ([]Damage{}) are different Go values
NilSlice == [isNil |-> TRUE, elems |-> <<>>]
EmptySlice == [isNil |-> FALSE, elems |-> <<>>]

\* append(s, d): the result is never nil
append(s, d) == [isNil |-> FALSE, elems |-> Append(s.elems, d)]

\* len(s)
len(s) == Len(s.elems)

Damage(description, cost) == [Description |-> description, Cost |-> cost]

User(id, name, lastname, email, money) ==
    [ID |-> id, Name |-> name, Lastname |-> lastname, Email |-> email, Money |-> money]

Asset(id, brand, model, year, color, owner, damages, appraisedValue) ==
    [ID |-> id, Brand |-> brand, Model |-> model, Year |-> year, Color |-> color,
     OwnerID |-> owner, Damages |-> damages, AppraisedValue |-> appraisedValue]

\* json.Marshal of a []Damage: null for a nil slice, else an array of objects
MarshalDamages(s) ==
    [null |-> s.isNil,
     array |-> [i \in 1..Len(s.elems) |->
                    [description |-> s.elems[i].Description, cost |-> s.elems[i].Cost]]]

\* json.Marshal(user): the object's keys are the struct tags
MarshalUser(u) ==
    [ID |-> u.ID, name |-> u.Name, lastname |-> u.Lastname, email |-> u.Email,
     money |-> u.Money]

\* json.Marshal(asset): the tag of AppraisedValue is malformed (no closing
\* quote), so the key is the Go field name
MarshalAsset(a) ==
    [ID |-> a.ID, brand |-> a.Brand, model |-> a.Model, year |-> a.Year,
     color |-> a.Color, owner |-> a.OwnerID, damages |-> MarshalDamages(a.Damages),
     AppraisedValue |-> a.AppraisedValue]

\* a key of the document, or the field's zero value when the key is absent
Field(json, key, zero) == IF key \in DOMAIN json THEN json[key] ELSE zero

\* json.Unmarshal into []Damage: null (or no key) leaves the slice nil
UnmarshalDamages(j) ==
    IF j.null THEN NilSlice
    ELSE [isNil |-> FALSE,
          elems |-> [i \in 1..Len(j.array) |->
                        Damage(j.array[i].description, j.array[i].cost)]]

\* json.Unmarshal(bytes, &user): keys the struct does not have are ignored,
\* keys the document does not have leave the zero value
UnmarshalUser(json) ==
    User(Field(json, "ID", ""), Field(json, "name", ""), Field(json, "lastname", ""),
         Field(json, "email", ""), Field(json, "money", 0))

\* json.Unmarshal(bytes, &asset)
UnmarshalAsset(json) ==
    Asset(Field(json, "ID", ""), Field(json, "brand", ""), Field(json, "model", ""),
          Field(json, "year", 0), Field(json, "color", ""), Field(json, "owner", ""),
          UnmarshalDamages(Field(json, "damages", MarshalDamages(NilSlice))),
          Field(json, "AppraisedValue", 0))

----------------------------------------------------------------------------
(* The world state store (the stub) *)

\* GetState(key) # nil
HasState(w, key) == key \in DOMAIN w

\* the world state with PutState(key, value) applied
PutState(w, key, value) == [k \in DOMAIN w \cup {key} |-> IF k = key THEN value ELSE w[k]]

\* the world state with DelState(key) applied
DelState(w, key) == [k \in DOMAIN w \ {key} |-> w[k]]

\* the bytes of the keys of the model: the store orders keys as byte strings
KeyBytes ==
    [k \in {"", "a1", "asset", "asset1", "asset2", "asset3", "asset4", "asset5",
            "asset6", "asset7", "user", "user1", "user2", "user3"} |->
        LET a == <<97>>
            asset == <<97, 115, 115, 101, 116>>
            user == <<117, 115, 101, 114>>
        IN CASE k = "" -> <<>>
             [] k = "a1" -> a \o <<49>>
             [] k = "asset" -> asset
             [] k = "asset1" -> asset \o <<49>>
             [] k = "asset2" -> asset \o <<50>>
             [] k = "asset3" -> asset \o <<51>>
             [] k = "asset4" -> asset \o <<52>>
             [] k = "asset5" -> asset \o <<53>>
             [] k = "asset6" -> asset \o <<54>>
             [] k = "asset7" -> asset \o <<55>>
             [] k = "user" -> user
             [] k = "user1" -> user \o <<49>>
             [] k = "user2" -> user \o <<50>>
             [] k = "user3" -> user \o <<51>>]

\* byte-wise lexical order of two byte strings: x sorts before y
RECURSIVE BytesLess(_, _)
BytesLess(x, y) ==
    IF y = <<>> THEN FALSE
    ELSE IF x = <<>> THEN TRUE
    ELSE IF Head(x) # Head(y) THEN Head(x) < Head(y)
    ELSE BytesLess(Tail(x), Tail(y))

\* key k sorts before key l
KeyLess(k, l) == BytesLess(KeyBytes[k], KeyBytes[l])

\* the keys of a set in ascending order
RECURSIVE SortedKeys(_)
SortedKeys(ks) ==
    IF ks = {} THEN <<>>
    ELSE LET first == CHOOSE k \in ks : \A l \in ks \ {k} : KeyLess(k, l)
         IN <<first>> \o SortedKeys(ks \ {first})

\* the range of GetStateByRange(startKey, endKey): startKey <= k < endKey,
\* an empty endKey being the end of the keyspace
InKeyRange(k, startKey, endKey) ==
    /\ ~KeyLess(k, startKey)
    /\ (endKey = "" \/ KeyLess(k, endKey))

\* GetStateByRange(startKey, endKey): the stored documents of the range, as
\* the iterator yields them, in ascending key order
GetStateByRange(w, startKey, endKey) ==
    LET keys == SortedKeys({k \in DOMAIN w : InKeyRange(k, startKey, endKey)})
    IN [i \in 1..Len(keys) |-> w[keys[i]]]

Put(key, value, checked) == [kind |-> "put", key |-> key, value |-> value, checked |-> checked]
Del(key, checked) == [kind |-> "del", key |-> key, value |-> <<>>, checked |-> checked]

\* The store writes of one handler, issued in order.  Write number failAt
\* (0: none) fails and leaves the store as it is.  A write whose error the
\* handler checks (checked) ends the handler with that error; a write whose
\* error the handler drops is followed by the next write.
RECURSIVE RunWrites(_, _, _, _, _)
RunWrites(w, ops, i, failAt, log) ==
    IF i > Len(ops) THEN [world |-> w, writes |-> log, err |-> ""]
    ELSE LET op == ops[i]
             ok == i # failAt
             w2 == IF ~ok THEN w
                   ELSE IF op.kind = "put" THEN PutState(w, op.key, op.value)
                   ELSE DelState(w, op.key)
             log2 == Append(log, [kind |-> op.kind, key |-> op.key, ok |-> ok])
         IN IF ~ok /\ op.checked
            THEN [world |-> w2, writes |-> log2, err |-> "store error"]
            ELSE RunWrites(w2, ops, i + 1, failAt, log2)

\* a handler that returns err before any write
Fail(w, err) == [world |-> w, writes |-> <<>>, err |-> err]

----------------------------------------------------------------------------
(* The seed of InitLedger *)

SeedUsers ==
    << User("user1", "Marko", "Markovic", "marko.markovic@email.com", 10000),
       User("user2", "Jovan", "Jovanovic", "jovan.jovanovic@email.com", 5000),
       User("user3", "Lazar", "Lazarevic", "lazar.lazarevic@email.com", 3750) >>

SeedAssets ==
    << Asset("asset1", "fiat", "500L", 2018, "black", "user1", EmptySlice, 7000),
       Asset("asset2", "audi", "A6", 2016, "blue", "user2", EmptySlice, 5000),
       Asset("asset3", "bmw", "500L", 2017, "red", "user2", EmptySlice, 12000),
       Asset("asset4", "ford", "500L", 2013, "gray", "user1", EmptySlice, 7350),
       Asset("asset5", "toyota", "500L", 2017, "black", "user1", EmptySlice, 4600),
       Asset("asset6", "opel", "astra", 2018, "black", "user3", EmptySlice, 6300) >>

----------------------------------------------------------------------------
(* The transaction functions, each as the result it returns on world state *)
(* w: the world state it leaves, the store writes it issued and its error  *)

\* AssetExists(ctx, id)
AssetExists(w, id) == HasState(w, id)

\* ReadAsset(ctx, id): an error when no document is stored at id, else the
\* document decoded as an Asset
ReadAsset(w, id) ==
    IF ~HasState(w, id) THEN [err |-> "the asset %s does not exist"]
    ELSE [err |-> "", asset |-> UnmarshalAsset(w[id])]

\* ReadUser(ctx, id): an error when no document is stored at id, else the
\* document decoded as a User
ReadUser(w, id) ==
    IF ~HasState(w, id) THEN [err |-> "the user %s does not exist"]
    ELSE [err |-> "", user |-> UnmarshalUser(w[id])]

\* the sum of the costs of a damage slice, as the loops of TransferAsset,
\* CreateAssetDamage and RepairDamages compute it
RECURSIVE SumCosts(_, _)
SumCosts(elems, n) == IF n = 0 THEN 0 ELSE SumCosts(elems, n - 1) + elems[n].Cost

TotalCost(damages) == SumCosts(damages.elems, len(damages))

\* InitLedger writing only the seed records whose ID holds no document yet
InitLedger_KeepsExisting(w, failAt) ==
    LET Free(op) == ~HasState(w, op.key)
    IN RunWrites(w,
                 SelectSeq([i \in 1..Len(SeedUsers) |->
                               Put(SeedUsers[i].ID, MarshalUser(SeedUsers[i]), TRUE)]
                           \o [i \in 1..Len(SeedAssets) |->
                               Put(SeedAssets[i].ID, MarshalAsset(SeedAssets[i]), TRUE)],
                           Free),
                 1, failAt, <<>>)

\* InitLedger(ctx): every seed user, then every seed asset, is written under
\* its ID; the first failing write ends the function
InitLedger(w, failAt) ==
    RunWrites(w,
              [i \in 1..Len(SeedUsers) |->
                  Put(SeedUsers[i].ID, MarshalUser(SeedUsers[i]), TRUE)]
              \o [i \in 1..Len(SeedAssets) |->
                  Put(SeedAssets[i].ID, MarshalAsset(SeedAssets[i]), TRUE)],
              1, failAt, <<>>)

\* CreateAsset building its asset as UpdateAsset does, from id, color, owner
\* and appraised value alone
CreateAsset_DropsFields(w, id, brand, model, year, color, owner, appraisedValue, failAt) ==
    IF AssetExists(w, id) THEN Fail(w, "the asset %s already exists")
    ELSE RunWrites(w,
                   << Put(id, MarshalAsset(Asset(id, "", "", 0, color, owner,
                                                 EmptySlice, appraisedValue)), TRUE) >>,
                   1, failAt, <<>>)

\* CreateAsset without its AssetExists check
CreateAsset_Overwrites(w, id, brand, model, year, color, owner, appraisedValue, failAt) ==
    RunWrites(w,
              << Put(id, MarshalAsset(Asset(id, brand, model, year, color, owner,
                                            EmptySlice, appraisedValue)), TRUE) >>,
              1, failAt, <<>>)

\* CreateAsset(ctx, id, brand, model, year, color, owner, appraisedValue)
CreateAsset(w, id, brand, model, year, color, owner, appraisedValue, failAt) ==
    IF AssetExists(w, id) THEN Fail(w, "the asset %s already exists")
    ELSE RunWrites(w,
                   << Put(id, MarshalAsset(Asset(id, brand, model, year, color, owner,
                                                 EmptySlice, appraisedValue)), TRUE) >>,
                   1, failAt, <<>>)

\* UpdateAsset(ctx, id, color, size, owner, appraisedValue): the stored
\* document is replaced by one built from the arguments alone
UpdateAsset(w, id, color, size, owner, appraisedValue, failAt) ==
    IF ~AssetExists(w, id) THEN Fail(w, "the asset %s does not exist")
    ELSE RunWrites(w,
                   << Put(id, MarshalAsset(Asset(id, "", "", 0, color, owner,
                                                 NilSlice, appraisedValue)), TRUE) >>,
                   1, failAt, <<>>)

\* DeleteAsset(ctx, id)
DeleteAsset(w, id, failAt) ==
    IF ~AssetExists(w, id) THEN Fail(w, "the asset %s does not exist")
    ELSE RunWrites(w, << Del(id, TRUE) >>, 1, failAt, <<>>)

\* ChangeAssetColor building a new asset from id and color, as UpdateAsset
\* builds its asset from its arguments
ChangeAssetColor_Rebuilds(w, id, color, failAt) ==
    LET r == ReadAsset(w, id)
    IN IF r.err # "" THEN Fail(w, "Car not found")
       ELSE RunWrites(w,
                      << Put(id, MarshalAsset(Asset(id, "", "", 0, color, r.asset.OwnerID,
                                                    r.asset.Damages,
                                                    r.asset.AppraisedValue)), TRUE) >>,
                      1, failAt, <<>>)

\* ChangeAssetColor(ctx, id, color)
ChangeAssetColor(w, id, color, failAt) ==
    LET r == ReadAsset(w, id)
    IN IF r.err # "" THEN Fail(w, "Car not found")
       ELSE RunWrites(w,
                      << Put(id, MarshalAsset([r.asset EXCEPT !.Color = color]), TRUE) >>,
                      1, failAt, <<>>)

\* the write-off test with >= for >
WrittenOff_AtEqual(totalCost, appraisedValue) == totalCost >= appraisedValue

\* the write-off test of CreateAssetDamage
WrittenOff(totalCost, appraisedValue) == totalCost > appraisedValue

\* CreateAssetDamage testing the cost of the new damage alone
CreateAssetDamage_TestsNewCost(w, id, description, cost, failAt) ==
    LET r == ReadAsset(w, id)
    IN IF r.err # "" THEN Fail(w, "Car not found")
       ELSE LET damages == append(r.asset.Damages, Damage(description, cost))
                asset == [r.asset EXCEPT !.Damages = damages]
            IN IF WrittenOff(cost, asset.AppraisedValue)
               THEN RunWrites(w, << Del(id, TRUE) >>, 1, failAt, <<>>)
               ELSE RunWrites(w, << Put(id, MarshalAsset(asset), TRUE) >>, 1, failAt, <<>>)

\* CreateAssetDamage(ctx, id, description, cost)
CreateAssetDamage(w, id, description, cost, failAt) ==
    LET r == ReadAsset(w, id)
    IN IF r.err # "" THEN Fail(w, "Car not found")
       ELSE LET damages == append(r.asset.Damages, Damage(description, cost))
                asset == [r.asset EXCEPT !.Damages = damages]
            IN IF WrittenOff(TotalCost(damages), asset.AppraisedValue)
               THEN RunWrites(w, << Del(id, TRUE) >>, 1, failAt, <<>>)
               ELSE RunWrites(w, << Put(id, MarshalAsset(asset), TRUE) >>, 1, failAt, <<>>)

\* the settlement price without the subtraction of the damages
TotalPrice_IgnoresDamages(asset) == asset.AppraisedValue

\* the settlement price of TransferAsset: the appraised value, less the
\* damages when the asset has some (withDamage is then true)
TotalPrice(asset) ==
    IF len(asset.Damages) = 0 THEN asset.AppraisedValue
    ELSE asset.AppraisedValue - TotalCost(asset.Damages)

\* the funds guard with its comparison turned round
NotEnoughMoney_Reversed(money, amount) == money > amount

\* the funds guard with <= for <
NotEnoughMoney_RejectsEqual(money, amount) == money <= amount

\* the funds guard of TransferAsset and of RepairDamages
NotEnoughMoney(money, amount) == money < amount

\* the three writes TransferAsset ends with: the errors of the first two are
\* dropped, the error of the third is returned
TransferWrites(owner, newOwner, newO, id, asset) ==
    << Put(owner.ID, MarshalUser(owner), FALSE),
       Put(newOwner, MarshalUser(newO), FALSE),
       Put(id, MarshalAsset(asset), TRUE) >>

\* TransferAsset testing the new owner's funds after its writes
TransferAsset_GuardAfterWrites(w, id, newOwner, withDamage, failAt) ==
    LET a == ReadAsset(w, id)
    IN IF a.err # "" THEN Fail(w, "Car not found")
       ELSE IF a.asset.OwnerID = newOwner THEN Fail(w, "New owner is same as current")
       ELSE LET o == ReadUser(w, a.asset.OwnerID)
                n == ReadUser(w, newOwner)
            IN IF o.err # "" THEN Fail(w, "Owner not found")
               ELSE IF n.err # "" THEN Fail(w, "New owner not found")
               ELSE IF len(a.asset.Damages) # 0 /\ ~withDamage
                    THEN Fail(w, "Car has unrepaired damages")
               ELSE LET totalPrice == TotalPrice(a.asset)
                        asset == [a.asset EXCEPT !.OwnerID = newOwner]
                        owner == [o.user EXCEPT !.Money = o.user.Money + totalPrice]
                        newO == [n.user EXCEPT !.Money = n.user.Money - totalPrice]
                        r == RunWrites(w, TransferWrites(owner, newOwner, newO, id, asset),
                                       1, failAt, <<>>)
                    IN IF NotEnoughMoney(n.user.Money, totalPrice)
                       THEN [r EXCEPT !.err = "Customer doesn't have enough money on his account"]
                       ELSE r

\* TransferAsset(ctx, id, newOwner, withDamage)
TransferAsset(w, id, newOwner, withDamage, failAt) ==
    LET a == ReadAsset(w, id)
    IN IF a.err # "" THEN Fail(w, "Car not found")
       ELSE IF a.asset.OwnerID = newOwner THEN Fail(w, "New owner is same as current")
       ELSE LET o == ReadUser(w, a.asset.OwnerID)
                n == ReadUser(w, newOwner)
            IN IF o.err # "" THEN Fail(w, "Owner not found")
               ELSE IF n.err # "" THEN Fail(w, "New owner not found")
               ELSE IF len(a.asset.Damages) # 0 /\ ~withDamage
                    THEN Fail(w, "Car has unrepaired damages")
               ELSE LET totalPrice == TotalPrice(a.asset)
                        asset == [a.asset EXCEPT !.OwnerID = newOwner]
                        owner == [o.user EXCEPT !.Money = o.user.Money + totalPrice]
                        newO == [n.user EXCEPT !.Money = n.user.Money - totalPrice]
                    IN IF NotEnoughMoney(n.user.Money, totalPrice)
                       THEN Fail(w, "Customer doesn't have enough money on his account")
                       ELSE RunWrites(w, TransferWrites(owner, newOwner, newO, id, asset),
                                      1, failAt, <<>>)

\* the three writes RepairDamages ends with: the errors of the first two are
\* dropped, the error of the third is returned
RepairWrites(owner, mechanic, repairman, id, asset) ==
    << Put(owner.ID, MarshalUser(owner), FALSE),
       Put(mechanic, MarshalUser(repairman), FALSE),
       Put(id, MarshalAsset(asset), TRUE) >>

\* RepairDamages(ctx, id, mechanic): owner and repairman are two decoded
\* copies, also when both are read from the same key
RepairDamages(w, id, mechanic, failAt) ==
    LET a == ReadAsset(w, id)
    IN IF a.err # "" THEN Fail(w, "Car not found")
       ELSE LET o == ReadUser(w, a.asset.OwnerID)
                m == ReadUser(w, mechanic)
            IN IF o.err # "" THEN Fail(w, "Owner not found")
               ELSE IF m.err # "" THEN Fail(w, "Repairman not found")
               ELSE LET totalCost == TotalCost(a.asset.Damages)
                        owner == [o.user EXCEPT !.Money = o.user.Money - totalCost]
                        repairman == [m.user EXCEPT !.Money = m.user.Money + totalCost]
                        asset == [a.asset EXCEPT !.Damages = EmptySlice]
                    IN IF NotEnoughMoney(o.user.Money, totalCost)
                       THEN Fail(w, "Owner doesn't have enough money on his account")
                       ELSE RunWrites(w, RepairWrites(owner, mechanic, repairman, id, asset),
                                      1, failAt, <<>>)

\* the loop of GetAllAssets over the first n documents of the iterator: each
\* is decoded as an Asset and appended
RECURSIVE GetAllAssetsLoop(_, _)
GetAllAssetsLoop(docs, n) ==
    IF n = 0 THEN <<>>
    ELSE Append(GetAllAssetsLoop(docs, n - 1), UnmarshalAsset(docs[n]))

\* GetAllAssets(ctx)
GetAllAssets(w) ==
    LET docs == GetStateByRange(w, "asset", "user")
    IN GetAllAssetsLoop(docs, Len(docs))

\* the loop of GetAllUsers
RECURSIVE GetAllUsersLoop(_, _)
GetAllUsersLoop(docs, n) ==
    IF n = 0 THEN <<>>
    ELSE Append(GetAllUsersLoop(docs, n - 1), UnmarshalUser(docs[n]))

\* GetAllUsers with the open-ended range its comment describes
GetAllUsers_AllKeys(w) ==
    LET docs == GetStateByRange(w, "", "")
    IN GetAllUsersLoop(docs, Len(docs))

\* GetAllUsers(ctx)
GetAllUsers(w) ==
    LET docs == GetStateByRange(w, "user", "")
    IN GetAllUsersLoop(docs, Len(docs))

\* the filter with its two conditions joined by "or"
MatchesFilter_Either(asset, color, owner) ==
    (asset.Color = color \/ color = "") \/ (owner = "" \/ asset.OwnerID = owner)

\* the filter of FindAssets
MatchesFilter(asset, color, owner) ==
    (asset.Color = color \/ color = "") /\ (owner = "" \/ asset.OwnerID = owner)

\* the loop of FindAssets: a decoded asset is appended when it passes the filter
RECURSIVE FindAssetsLoop(_, _, _, _)
FindAssetsLoop(docs, n, color, owner) ==
    IF n = 0 THEN <<>>
    ELSE LET asset == UnmarshalAsset(docs[n])
             assets == FindAssetsLoop(docs, n - 1, color, owner)
         IN IF MatchesFilter(asset, color, owner) THEN Append(assets, asset) ELSE assets

\* FindAssets(ctx, color, owner)
FindAssets(w, color, owner) ==
    LET docs == GetStateByRange(w, "asset", "user")
    IN FindAssetsLoop(docs, Len(docs), color, owner)

----------------------------------------------------------------------------
(* The state machine: one action per transaction function *)

NoArgs ==
    [id |-> "", party |-> "", color |-> "", brand |-> "", model |-> "", year |-> 0,
     description |-> "", amount |-> 0, withDamage |-> FALSE]

\* a call of function fn with arguments args that returned result r
Invoke(fn, args, r) ==
    /\ nCalls < MaxCalls
    /\ nCalls' = nCalls + 1
    /\ prev' = world
    /\ world' = r.world
    /\ last' = [fn |-> fn, args |-> args, err |-> r.err, writes |-> r.writes]

\* the ledger before any transaction, or as a deployment that invokes
\* InitLedger leaves it
Init ==
    /\ world \in {<<>>, InitLedger(<<>>, 0).world}
    /\ prev = world
    /\ last = [fn |-> "", args |-> NoArgs, err |-> "", writes |-> <<>>]
    /\ nCalls = 0

InvokeInitLedger(failAt) ==
    Invoke("InitLedger", NoArgs, InitLedger(world, failAt))

InvokeCreateAsset(id, brand, model, year, color, owner, appraisedValue, failAt) ==
    Invoke("CreateAsset",
           [NoArgs EXCEPT !.id = id, !.brand = brand, !.model = model, !.year = year,
                          !.color = color, !.party = owner, !.amount = appraisedValue],
           CreateAsset(world, id, brand, model, year, color, owner, appraisedValue, failAt))

InvokeUpdateAsset(id, color, size, owner, appraisedValue, failAt) ==
    Invoke("UpdateAsset",
           [NoArgs EXCEPT !.id = id, !.color = color, !.party = owner,
                          !.amount = appraisedValue],
           UpdateAsset(world, id, color, size, owner, appraisedValue, failAt))

InvokeDeleteAsset(id, failAt) ==
    Invoke("DeleteAsset", [NoArgs EXCEPT !.id = id], DeleteAsset(world, id, failAt))

InvokeChangeAssetColor(id, color, failAt) ==
    Invoke("ChangeAssetColor", [NoArgs EXCEPT !.id = id, !.color = color],
           ChangeAssetColor(world, id, color, failAt))

InvokeCreateAssetDamage(id, description, cost, failAt) ==
    Invoke("CreateAssetDamage",
           [NoArgs EXCEPT !.id = id, !.description = description, !.amount = cost],
           CreateAssetDamage(world, id, description, cost, failAt))

InvokeRepairDamages(id, mechanic, failAt) ==
    Invoke("RepairDamages", [NoArgs EXCEPT !.id = id, !.party = mechanic],
           RepairDamages(world, id, mechanic, failAt))

InvokeTransferAsset(id, newOwner, withDamage, failAt) ==
    Invoke("TransferAsset",
           [NoArgs EXCEPT !.id = id, !.party = newOwner, !.withDamage = withDamage],
           TransferAsset(world, id, newOwner, withDamage, failAt))

\* the functions that only read: they return their value or error and issue
\* no write
InvokeReadAsset(id) ==
    Invoke("ReadAsset", [NoArgs EXCEPT !.id = id], Fail(world, ReadAsset(world, id).err))

InvokeReadUser(id) ==
    Invoke("ReadUser", [NoArgs EXCEPT !.id = id], Fail(world, ReadUser(world, id).err))

InvokeAssetExists(id) ==
    Invoke("AssetExists", [NoArgs EXCEPT !.id = id], Fail(world, ""))

InvokeGetAllAssets ==
    Invoke("GetAllAssets", NoArgs, Fail(world, ""))

InvokeGetAllUsers ==
    Invoke("GetAllUsers", NoArgs, Fail(world, ""))

InvokeFindAssets(color, owner) ==
    Invoke("FindAssets", [NoArgs EXCEPT !.color = color, !.party = owner], Fail(world, ""))

\* every call, with the store failing at write failAt of the call (0: never)
Calls(failAts) ==
    \E failAt \in failAts :
        \/ InvokeInitLedger(failAt)
        \/ \E id \in CreateArgs, brand \in Brands, model \in Models, year \in Years,
              color \in Colors, owner \in OwnerArgs, appraisedValue \in AppraisedValues :
                InvokeCreateAsset(id, brand, model, year, color, owner, appraisedValue, failAt)
        \/ \E id \in AssetArgs, color \in Colors, size \in Years, owner \in OwnerArgs,
              appraisedValue \in AppraisedValues :
                InvokeUpdateAsset(id, color, size, owner, appraisedValue, failAt)
        \/ \E id \in AssetArgs : InvokeDeleteAsset(id, failAt)
        \/ \E id \in AssetArgs, color \in Colors : InvokeChangeAssetColor(id, color, failAt)
        \/ \E id \in AssetArgs, description \in Descriptions, cost \in Costs :
                InvokeCreateAssetDamage(id, description, cost, failAt)
        \/ \E id \in AssetArgs, mechanic \in PartyArgs : InvokeRepairDamages(id, mechanic, failAt)
        \/ \E id \in AssetArgs, newOwner \in PartyArgs, withDamage \in BOOLEAN :
                InvokeTransferAsset(id, newOwner, withDamage, failAt)
        \/ \E id \in AssetArgs : InvokeReadAsset(id)
        \/ \E id \in AssetArgs : InvokeReadUser(id)
        \/ \E id \in AssetArgs : InvokeAssetExists(id)
        \/ InvokeGetAllAssets
        \/ InvokeGetAllUsers
        \/ \E color \in FilterColors, owner \in FilterOwners : InvokeFindAssets(color, owner)

\* the store performs every write
Next == Calls({0})

Spec == Init /\ [][Next]_vars

\* one write of a call may fail
MaxFailAt == 3

NextFaulty == Calls(0..MaxFailAt)

FaultySpec == Init /\ [][NextFaulty]_vars

----------------------------------------------------------------------------
(* Vocabulary of the properties *)

\* the document stored at key k was written as a User / as an Asset
IsUser(w, k) == HasState(w, k) /\ "money" \in DOMAIN w[k]
IsAsset(w, k) == HasState(w, k) /\ "owner" \in DOMAIN w[k]

\* the stored balance of k, as ReadUser reports it
Balance(w, k) == IF HasState(w, k) THEN UnmarshalUser(w[k]).Money ELSE 0

\* the sum of the stored balances of the parties p and q of a call
BalanceOfParties(w, p, q) == IF p = q THEN Balance(w, p) ELSE Balance(w, p) + Balance(w, q)

\* the sum of the costs of a sequence of damages
RECURSIVE CostOf(_)
CostOf(ds) == IF ds = <<>> THEN 0 ELSE Head(ds).Cost + CostOf(Tail(ds))

\* the last call and the asset it was made on, as stored before the call
Called(fn) == last.fn = fn
Succeeded == last.err = ""
AssetBefore == UnmarshalAsset(prev[last.args.id])
AssetAfter == UnmarshalAsset(world[last.args.id])
DamageCostBefore == CostOf(AssetBefore.Damages.elems)

\* the settlement price of a transfer of the asset as stored before the call
PriceBefore ==
    IF AssetBefore.Damages.elems = <<>> THEN AssetBefore.AppraisedValue
    ELSE AssetBefore.AppraisedValue - DamageCostBefore

\* every key other than those of ks holds what it held before the call
UnchangedOutside(ks) ==
    /\ DOMAIN world \ ks = DOMAIN prev \ ks
    /\ \A k \in DOMAIN world \ ks : world[k] = prev[k]

----------------------------------------------------------------------------
(* C1 *)

\* C1: conservation of money.  After every successful TransferAsset and every
\* successful RepairDamages, the stored balances of the users the call
\* affects (the asset's owner and the new owner or mechanic, one user when
\* both are the same ID) sum to what they summed to before the call.
C1_ConservationOfMoney ==
    ((Called("TransferAsset") \/ Called("RepairDamages")) /\ Succeeded)
        => BalanceOfParties(world, AssetBefore.OwnerID, last.args.party)
               = BalanceOfParties(prev, AssetBefore.OwnerID, last.args.party)

----------------------------------------------------------------------------
(* C2 *)

\* C2: non-negative balances.  The calls of the model pass non-negative
\* appraised values and damage costs only; in every reachable state every
\* stored document, read as a User, has a balance of at least zero.
C2_NonNegativeBalances ==
    \A k \in DOMAIN world : Balance(world, k) >= 0

\* a transfer that took the whole balance of the new owner
C2_Witness ==
    /\ Called("TransferAsset") /\ Succeeded
    /\ IsUser(world, last.args.party)
    /\ Balance(prev, last.args.party) > 0
    /\ Balance(world, last.args.party) = 0

----------------------------------------------------------------------------
(* C3 *)

\* C3: damage write-off.  CreateAssetDamage on a stored asset: when the costs
\* of its damages and of the new one sum to more than the appraised value,
\* no document is left at the ID and ReadAsset reports an error; otherwise
\* the asset is stored with the new damage appended to the damages it had.
C3_DamageWriteOff ==
    (Called("CreateAssetDamage") /\ IsAsset(prev, last.args.id)) =>
        LET id == last.args.id
            new == Damage(last.args.description, last.args.amount)
        IN IF DamageCostBefore + last.args.amount > AssetBefore.AppraisedValue
           THEN ~HasState(world, id) /\ ReadAsset(world, id).err # ""
           ELSE /\ IsAsset(world, id)
                /\ AssetAfter.Damages.elems = Append(AssetBefore.Damages.elems, new)
                /\ Succeeded

\* a second damage that takes the total over the appraised value
C3_Witness ==
    /\ Called("CreateAssetDamage") /\ IsAsset(prev, last.args.id)
    /\ Len(AssetBefore.Damages.elems) >= 1
    /\ DamageCostBefore <= AssetBefore.AppraisedValue
    /\ ~HasState(world, last.args.id)

\* a damage that takes the total to exactly the appraised value is kept
C3_WitnessKept ==
    /\ Called("CreateAssetDamage") /\ IsAsset(prev, last.args.id)
    /\ DamageCostBefore + last.args.amount = AssetBefore.AppraisedValue
    /\ Len(AssetAfter.Damages.elems) >= 1

----------------------------------------------------------------------------
(* C4 *)

\* C4: transfer blocked by damage.  TransferAsset of a stored asset whose
\* owner and new owner are two different stored Users: with damages and
\* withDamage false it returns the unrepaired-damages error and changes no
\* document; with damages, withDamage true and a new owner whose balance
\* covers it, it succeeds and moves the appraised value less the sum of the
\* damage costs from the new owner to the owner; without damages (and a new
\* owner whose balance covers it) it moves the appraised value, whatever
\* withDamage is.
C4_TransferBlockedByDamage ==
    ( /\ Called("TransferAsset")
      /\ IsAsset(prev, last.args.id)
      /\ IsUser(prev, AssetBefore.OwnerID)
      /\ IsUser(prev, last.args.party)
      /\ AssetBefore.OwnerID # last.args.party ) =>
        LET owner == AssetBefore.OwnerID
            newOwner == last.args.party
            damaged == Len(AssetBefore.Damages.elems) >= 1
            amount == IF damaged THEN AssetBefore.AppraisedValue - DamageCostBefore
                      ELSE AssetBefore.AppraisedValue
            Moved == /\ Succeeded
                     /\ Balance(world, newOwner) = Balance(prev, newOwner) - amount
                     /\ Balance(world, owner) = Balance(prev, owner) + amount
        IN /\ (damaged /\ ~last.args.withDamage) =>
                  (last.err = "Car has unrepaired damages" /\ world = prev
                       /\ last.writes = <<>>)
           /\ (damaged /\ last.args.withDamage /\ Balance(prev, newOwner) >= amount) => Moved
           /\ (~damaged /\ Balance(prev, newOwner) >= amount) => Moved

\* a damaged asset sold with its damages, at less than its appraised value
C4_Witness ==
    /\ Called("TransferAsset") /\ Succeeded /\ last.args.withDamage
    /\ IsAsset(prev, last.args.id)
    /\ IsUser(prev, AssetBefore.OwnerID) /\ IsUser(prev, last.args.party)
    /\ DamageCostBefore > 0
    /\ Balance(world, AssetBefore.OwnerID)
           = Balance(prev, AssetBefore.OwnerID) + AssetBefore.AppraisedValue - DamageCostBefore

\* a damaged asset whose transfer without its damages is refused
C4_WitnessBlocked ==
    /\ Called("TransferAsset") /\ last.err = "Car has unrepaired damages"
    /\ IsUser(prev, AssetBefore.OwnerID) /\ IsUser(prev, last.args.party)

----------------------------------------------------------------------------
(* C5 *)

\* C5: effect of a successful TransferAsset(id, newOwner, withDamage).  The
\* asset's owner is newOwner, the previous owner's stored balance has grown
\* by the settlement price and the new owner's has shrunk by it, every other
\* field of the asset and its damages are as before, and no document other
\* than the asset, the previous owner and the new owner has changed.
C5_TransferEffect ==
    (Called("TransferAsset") /\ Succeeded) =>
        LET id == last.args.id
            owner == AssetBefore.OwnerID
            newOwner == last.args.party
        IN /\ HasState(world, id)
           /\ AssetAfter = [AssetBefore EXCEPT !.OwnerID = newOwner]
           /\ Balance(world, owner) = Balance(prev, owner) + PriceBefore
           /\ Balance(world, newOwner) = Balance(prev, newOwner) - PriceBefore
           /\ UnchangedOutside({id, owner, newOwner})

----------------------------------------------------------------------------
(* C6 *)

\* C6: effect of a successful RepairDamages(assetID, mechanicID).  The
\* owner's stored balance is its previous balance less the sum of the damage
\* costs, the mechanic's is its previous balance plus that sum, the asset has
\* no damages, and its owner and other fields are as before.
C6_RepairEffect ==
    (Called("RepairDamages") /\ Succeeded) =>
        LET id == last.args.id
            owner == AssetBefore.OwnerID
            mechanic == last.args.party
        IN /\ HasState(world, id)
           /\ AssetAfter = [AssetBefore EXCEPT !.Damages = EmptySlice]
           /\ Balance(world, owner) = Balance(prev, owner) - DamageCostBefore
           /\ Balance(world, mechanic) = Balance(prev, mechanic) + DamageCostBefore

----------------------------------------------------------------------------
(* C7 *)

\* the checks TransferAsset makes before its funds guard all pass
TransferReachesGuard ==
    /\ HasState(prev, last.args.id)
    /\ AssetBefore.OwnerID # last.args.party
    /\ HasState(prev, AssetBefore.OwnerID)
    /\ HasState(prev, last.args.party)
    /\ (AssetBefore.Damages.elems = <<>> \/ last.args.withDamage)

\* the asset, its owner and the mechanic of RepairDamages resolve
RepairReachesGuard ==
    /\ HasState(prev, last.args.id)
    /\ HasState(prev, AssetBefore.OwnerID)
    /\ HasState(prev, last.args.party)

\* C7: funds guard.  TransferAsset returns the insufficient-funds error
\* exactly when its earlier checks pass and the new owner's balance is less
\* than the settlement price; RepairDamages returns its insufficient-funds
\* error exactly when asset, owner and mechanic resolve and the owner's
\* balance is less than the sum of the damage costs.  A balance equal to the
\* amount is not rejected, and a rejected call issues no write and changes
\* no document.
C7_FundsGuard ==
    /\ Called("TransferAsset") =>
          /\ (last.err = "Customer doesn't have enough money on his account")
                 <=> (TransferReachesGuard
                          /\ Balance(prev, last.args.party) < PriceBefore)
          /\ (last.err = "Customer doesn't have enough money on his account")
                 => (last.writes = <<>> /\ world = prev)
    /\ Called("RepairDamages") =>
          /\ (last.err = "Owner doesn't have enough money on his account")
                 <=> (RepairReachesGuard
                          /\ Balance(prev, AssetBefore.OwnerID) < DamageCostBefore)
          /\ (last.err = "Owner doesn't have enough money on his account")
                 => (last.writes = <<>> /\ world = prev)

\* a repair refused because the owner cannot pay for it
C7_Witness ==
    /\ Called("RepairDamages")
    /\ last.err = "Owner doesn't have enough money on his account"
    /\ IsUser(prev, AssetBefore.OwnerID)
    /\ DamageCostBefore > Balance(prev, AssetBefore.OwnerID)

\* a transfer refused because the new owner cannot pay for it
C7_WitnessTransfer ==
    /\ Called("TransferAsset")
    /\ last.err = "Customer doesn't have enough money on his account"
    /\ IsUser(prev, last.args.party)

\* a transfer and a repair accepted with a balance equal to the amount
C7_WitnessEqualTransfer ==
    /\ Called("TransferAsset") /\ Succeeded
    /\ IsUser(prev, last.args.party)
    /\ PriceBefore > 0 /\ Balance(prev, last.args.party) = PriceBefore

C7_WitnessEqualRepair ==
    /\ Called("RepairDamages") /\ Succeeded
    /\ IsUser(prev, AssetBefore.OwnerID)
    /\ DamageCostBefore > 0 /\ Balance(prev, AssetBefore.OwnerID) = DamageCostBefore

----------------------------------------------------------------------------
(* C8 *)

\* C8: stop at the first store failure.  In every call, a store write that
\* fails is the last write the call issues, and the call returns an error.
C8_StopAtFirstStoreFailure ==
    \A i \in 1..Len(last.writes) :
        ~last.writes[i].ok => (i = Len(last.writes) /\ last.err # "")

----------------------------------------------------------------------------
(* C9 *)

\* C9: create/read round trip.  After a successful CreateAsset(id, brand,
\* model, year, color, owner, appraisedValue), AssetExists(id) is true and
\* ReadAsset(id) returns an asset with exactly these fields and no damages.
C9_CreateReadRoundTrip ==
    (Called("CreateAsset") /\ Succeeded) =>
        LET a == last.args
            r == ReadAsset(world, a.id)
        IN /\ AssetExists(world, a.id)
           /\ r.err = ""
           /\ r.asset.ID = a.id
           /\ r.asset.Brand = a.brand
           /\ r.asset.Model = a.model
           /\ r.asset.Year = a.year
           /\ r.asset.Color = a.color
           /\ r.asset.OwnerID = a.party
           /\ r.asset.AppraisedValue = a.amount
           /\ r.asset.Damages.elems = <<>>

\* an asset created at a free ID with a value that is not the zero value
C9_Witness ==
    /\ Called("CreateAsset") /\ Succeeded
    /\ ~HasState(prev, last.args.id)
    /\ last.args.amount > 0
    /\ HasState(world, last.args.id)

----------------------------------------------------------------------------
(* C10 *)

\* C10: no double-create.  CreateAsset with an ID at which a document is
\* stored returns the already-exists error, issues no write and leaves every
\* document, the one at that ID included, as it was.
C10_NoDoubleCreate ==
    (Called("CreateAsset") /\ HasState(prev, last.args.id)) =>
        /\ last.err = "the asset %s already exists"
        /\ last.writes = <<>>
        /\ world = prev

\* a second CreateAsset at the ID of an asset stored by an earlier CreateAsset
C10_Witness ==
    /\ Called("CreateAsset")
    /\ last.err = "the asset %s already exists"
    /\ last.args.id = "asset7"
    /\ IsAsset(world, "asset7")
    /\ nCalls >= 2

----------------------------------------------------------------------------
(* C11 *)

\* the asset, owner and mechanic of the last RepairDamages call name a stored
\* Asset and two stored Users
RepairPartiesResolveByType ==
    /\ IsAsset(prev, last.args.id)
    /\ IsUser(prev, AssetBefore.OwnerID)
    /\ IsUser(prev, last.args.party)

\* C11: RepairDamages resolves its parties by type.  When the asset ID does
\* not name a stored Asset, or the asset's owner or the mechanic ID does not
\* name a stored User, the call returns a not-found error and issues no
\* write; and no RepairDamages call leaves a User document at a key that
\* held an Asset document.
C11_RepairResolvesByType ==
    Called("RepairDamages") =>
        /\ ~RepairPartiesResolveByType =>
              /\ last.err \in {"Car not found", "Owner not found", "Repairman not found"}
              /\ last.writes = <<>>
              /\ world = prev
        /\ \A k \in DOMAIN prev : IsAsset(prev, k) => ~IsUser(world, k)

----------------------------------------------------------------------------
(* C12 *)

\* C12: keyspace invariant.  In every reachable state every document written
\* as an Asset is stored at a key k with "asset" <= k < "user", and every
\* document written as a User at a key k with "user" <= k.
C12_KeyspaceInvariant ==
    \A k \in DOMAIN world :
        /\ IsAsset(world, k) => InKeyRange(k, "asset", "user")
        /\ IsUser(world, k) => InKeyRange(k, "user", "")

----------------------------------------------------------------------------
(* C13 *)

\* C13: user lifecycle.  A stored User document is never removed, and it is
\* changed only by a successful TransferAsset or RepairDamages of which the
\* user is a party (the asset's owner, the new owner or the mechanic), or by
\* InitLedger; CreateAsset, UpdateAsset, DeleteAsset, ChangeAssetColor and
\* CreateAssetDamage leave every User document as it is.
C13_UserLifecycle ==
    \A k \in DOMAIN prev :
        IsUser(prev, k) =>
            /\ HasState(world, k)
            /\ world[k] # prev[k] =>
                  \/ Called("InitLedger")
                  \/ /\ Called("TransferAsset") \/ Called("RepairDamages")
                     /\ Succeeded
                     /\ k \in {AssetBefore.OwnerID, last.args.party}

----------------------------------------------------------------------------
(* C14 *)

\* C14: damages is always a sequence.  In every reachable state the damages
\* of every stored Asset document are an array, possibly empty, never null.
C14_DamagesNeverNull ==
    \A k \in DOMAIN world : IsAsset(world, k) => ~world[k].damages.null

----------------------------------------------------------------------------
(* C15 *)

\* C15: FindAssets filter.  A FindAssets(color, owner) call returns the list
\* GetAllAssets() returns on the same state restricted, in the same order, to
\* the assets for which color is empty or the asset's color and owner is
\* empty or the asset's owner; FindAssets("", "") returns the list of
\* GetAllAssets() and FindAssets("", o) exactly the assets owned by o.
C15_FindAssetsFilter ==
    Called("FindAssets") =>
        LET color == last.args.color
            owner == last.args.party
            Wanted(a) == /\ color = "" \/ a.Color = color
                         /\ owner = "" \/ a.OwnerID = owner
            OwnedBy(a) == a.OwnerID = owner
        IN /\ last.err = ""
           /\ FindAssets(world, color, owner) = SelectSeq(GetAllAssets(world), Wanted)
           /\ (color = "" /\ owner = "") =>
                 FindAssets(world, color, owner) = GetAllAssets(world)
           /\ (color = "" /\ owner # "") =>
                 FindAssets(world, color, owner) = SelectSeq(GetAllAssets(world), OwnedBy)

\* a FindAssets call whose two filters both exclude assets
C15_Witness ==
    /\ Called("FindAssets") /\ last.args.color = "black" /\ last.args.party = "user3"
    /\ Len(FindAssets(world, "black", "user3")) >= 1
    /\ Len(FindAssets(world, "black", "user3")) < Len(FindAssets(world, "black", ""))
    /\ Len(FindAssets(world, "black", "user3")) < Len(FindAssets(world, "", "user3"))
    /\ Len(FindAssets(world, "black", "")) < Len(GetAllAssets(world))

----------------------------------------------------------------------------
(* C16 *)

\* the entries of a list are the decoded documents of exactly the keys ks,
\* one each, in ascending key order
ListsExactly(list, ks, Decode(_)) ==
    /\ Len(list) = Cardinality(ks)
    /\ \A i \in 1..Len(list) : list[i].ID \in ks /\ list[i] = Decode(world[list[i].ID])
    /\ \A i, j \in 1..Len(list) : i < j => KeyLess(list[i].ID, list[j].ID)

C16_WitnessAssets ==
    /\ Called("GetAllAssets")
    /\ HasState(world, "a1")
    /\ Len(GetAllAssets(world)) >= 2
    /\ Len(GetAllUsers(world)) >= 2

----------------------------------------------------------------------------
(* C17 *)

\* C17: ChangeAssetColor changes only the color.  With no document at the ID
\* it returns a not-found error and issues no write; otherwise the asset read
\* at the ID afterwards has the color of the call and the ID, brand, model,
\* year, owner, appraised value and damages it had, and every other document
\* is unchanged.
C17_ChangeColorOnly ==
    Called("ChangeAssetColor") =>
        IF ~HasState(prev, last.args.id)
        THEN last.err = "Car not found" /\ last.writes = <<>> /\ world = prev
        ELSE /\ Succeeded
             /\ HasState(world, last.args.id)
             /\ AssetAfter = [AssetBefore EXCEPT !.Color = last.args.color]
             /\ UnchangedOutside({last.args.id})

\* the color of a damaged asset is changed
C17_Witness ==
    /\ Called("ChangeAssetColor") /\ Succeeded
    /\ IsAsset(prev, last.args.id)
    /\ AssetBefore.Color # last.args.color
    /\ AssetBefore.Brand # ""
    /\ Len(AssetBefore.Damages.elems) >= 1
    /\ AssetAfter.Color = last.args.color

----------------------------------------------------------------------------
(* C18 *)

SeedIDs ==
    {SeedUsers[i].ID : i \in 1..Len(SeedUsers)}
        \cup {SeedAssets[i].ID : i \in 1..Len(SeedAssets)}

\* C18: InitLedger seeding.  After a successful InitLedger every seed ID
\* holds its seed record, whatever it held before, every other key holds
\* what it held before, and a further InitLedger would leave the state as
\* it is.
C18_InitLedgerSeeding ==
    (Called("InitLedger") /\ Succeeded) =>
        /\ \A i \in 1..Len(SeedUsers) :
              /\ HasState(world, SeedUsers[i].ID)
              /\ world[SeedUsers[i].ID] = MarshalUser(SeedUsers[i])
              /\ ReadUser(world, SeedUsers[i].ID).user = SeedUsers[i]
        /\ \A i \in 1..Len(SeedAssets) :
              /\ HasState(world, SeedAssets[i].ID)
              /\ world[SeedAssets[i].ID] = MarshalAsset(SeedAssets[i])
              /\ ReadAsset(world, SeedAssets[i].ID).asset = SeedAssets[i]
        /\ UnchangedOutside(SeedIDs)
        /\ InitLedger(world, 0).world = world

\* InitLedger on a ledger with a changed seed user, a changed seed asset and
\* a document at a key that is no seed ID
C18_Witness ==
    /\ Called("InitLedger") /\ Succeeded
    /\ \E k \in SeedIDs : IsUser(world, k) /\ HasState(prev, k) /\ prev[k] # world[k]
    /\ \E k \in SeedIDs : IsAsset(world, k) /\ HasState(prev, k) /\ prev[k] # world[k]

\* InitLedger on a ledger with a document at a key that is no seed ID
C18_WitnessOtherKey ==
    /\ Called("InitLedger") /\ Succeeded
    /\ DOMAIN prev \ SeedIDs # {}
    /\ \E k \in SeedIDs : HasState(prev, k) /\ prev[k] # world[k]

----------------------------------------------------------------------------
(* C19 *)

ReadOnlyFunctions ==
    {"ReadAsset", "ReadUser", "AssetExists", "GetAllAssets", "GetAllUsers", "FindAssets"}

\* C19: the world state changes only through a successful mutating call.  On
\* a store that never fails, a call that returns an error and a call of a
\* read-only function issue no write and leave every document as it was.
C19_OnlySuccessfulCallsChange ==
    (last.err # "" \/ last.fn \in ReadOnlyFunctions) =>
        (world = prev /\ last.writes = <<>>)

\* a transfer refused for lack of funds, after all its lookups
C19_Witness ==
    /\ Called("TransferAsset")
    /\ last.err = "Customer doesn't have enough money on his account"
    /\ IsUser(prev, last.args.party)
    /\ world = prev

----------------------------------------------------------------------------
(* C20 *)

\* C20: damage never exceeds value.  The calls of the model pass non-negative
\* appraised values and damage costs only; in every reachable state the
\* damage costs of every stored asset sum to at most its appraised value, and
\* the settlement price of every accepted TransferAsset is at least zero.
C20_DamageWithinValue ==
    /\ \A k \in DOMAIN world :
          LET a == UnmarshalAsset(world[k])
          IN CostOf(a.Damages.elems) <= a.AppraisedValue
    /\ (Called("TransferAsset") /\ Succeeded) => PriceBefore >= 0

\* an asset sold with damages that sum to its appraised value, at price zero
C20_Witness ==
    /\ Called("TransferAsset") /\ Succeeded /\ last.args.withDamage
    /\ IsAsset(prev, last.args.id)
    /\ DamageCostBefore > 0
    /\ DamageCostBefore = AssetBefore.AppraisedValue

\* an asset with two damages
C20_WitnessTwoDamages ==
    \E k \in DOMAIN world :
        IsAsset(world, k) /\ Len(UnmarshalAsset(world[k]).Damages.elems) >= 2

====
